---- MODULE Spec2Model ----
(***************************************************************************)
(* Model of packages/nx/src/native/tasks/hashers/hash_workspace_files.rs   *)
(*                                                                         *)
(* A Rust String is modelled as a sequence of one-character strings, so    *)
(* that starts_with, strip_prefix, slicing, join and format! are computed  *)
(* character by character as the code computes them.                       *)
(***************************************************************************)
EXTENDS Integers, Sequences, FiniteSets, TLC

(***************************************************************************)
(* Bounds of the model.                                                    *)
(***************************************************************************)
\* number of threads sharing one Arc<DashMap>; each makes one call
NumThreads == 2
\* longest workspace_file_sets slice drawn for a single call (SpecSolo)
MaxPatterns == 2

Threads == 1..NumThreads

(***************************************************************************)
(* Strings and bytes.                                                      *)
(***************************************************************************)
\* printable ASCII, in code order starting at 32 (the quote, the backslash
\* and the backtick, which no modelled string holds, are spelled out)
AsciiChars ==
    << " ", "!", "dquote", "#", "$", "%", "&", "'", "(", ")", "*", "+", ",", "-",
       ".", "/", "0", "1", "2", "3", "4", "5", "6", "7", "8", "9", ":", ";",
       "<", "=", ">", "?", "@", "A", "B", "C", "D", "E", "F", "G", "H", "I",
       "J", "K", "L", "M", "N", "O", "P", "Q", "R", "S", "T", "U", "V", "W",
       "X", "Y", "Z", "[", "backslash", "]", "^", "_", "backtick", "a", "b", "c", "d", "e",
       "f", "g", "h", "i", "j", "k", "l", "m", "n", "o", "p", "q", "r", "s",
       "t", "u", "v", "w", "x", "y", "z", "{", "|", "}", "~" >>

\* the byte of one character
Byte(c) == 31 + (CHOOSE i \in 1..Len(AsciiChars) : AsciiChars[i] = c)

\* str::as_bytes
as_bytes(s) == [i \in 1..Len(s) |-> Byte(s[i])]

\* starts_with comparing only as far as the shorter string goes
starts_with_unchecked_length(s, prefix) ==
    \A i \in 1..Len(prefix) : i <= Len(s) => s[i] = prefix[i]

\* str::starts_with
starts_with(s, prefix) ==
    /\ Len(s) >= Len(prefix)
    /\ \A i \in 1..Len(prefix) : s[i] = prefix[i]

\* &x[n..] with n counted from 0
SliceFrom(s, n) == SubSeq(s, n + 1, Len(s))

None == [some |-> FALSE]
Some(v) == [some |-> TRUE, v |-> v]

\* str::strip_prefix
strip_prefix(s, prefix) ==
    IF starts_with(s, prefix) THEN Some(SliceFrom(s, Len(prefix))) ELSE None

\* [String]::join(sep)
RECURSIVE join(_, _)
join(strs, sep) ==
    IF Len(strs) = 0 THEN << >>
    ELSE IF Len(strs) = 1 THEN strs[1]
    ELSE strs[1] \o sep \o join(Tail(strs), sep)

Comma == << "," >>
Bang == << "!" >>
WorkspaceRoot ==
    << "{", "w", "o", "r", "k", "s", "p", "a", "c", "e", "R", "o", "o", "t", "}", "/" >>

(***************************************************************************)
(* globs_from_workspace_inputs                                             *)
(***************************************************************************)
\* NormalizeEntry keeping an entry that lacks the root-scope marker
NormalizeEntryKeepsUnscoped(x) ==
    LET is_negative == starts_with(x, Bang)
        y == IF is_negative THEN SliceFrom(x, 1) ELSE x
        fileset == strip_prefix(y, WorkspaceRoot)
    IN  IF fileset.some
        THEN IF is_negative THEN Some(Bang \o fileset.v) ELSE Some(fileset.v)
        ELSE Some(x)

\* NormalizeEntry losing the negation marker
NormalizeEntryDropsNegation(x) ==
    LET is_negative == starts_with(x, Bang)
        y == IF is_negative THEN SliceFrom(x, 1) ELSE x
        fileset == strip_prefix(y, WorkspaceRoot)
    IN  IF fileset.some THEN Some(fileset.v) ELSE None

\* the closure given to filter_map, for one entry
NormalizeEntry(x) ==
    LET is_negative == starts_with(x, Bang)
        y == IF is_negative THEN SliceFrom(x, 1) ELSE x
        fileset == strip_prefix(y, WorkspaceRoot)
    IN  IF fileset.some
        THEN IF is_negative THEN Some(Bang \o fileset.v) ELSE Some(fileset.v)
        ELSE None

\* globs_from_workspace_inputs collecting the globs in the opposite order
RECURSIVE globs_from_workspace_inputs_reversed(_)
globs_from_workspace_inputs_reversed(workspace_file_sets) ==
    IF Len(workspace_file_sets) = 0 THEN << >>
    ELSE LET r == NormalizeEntry(Head(workspace_file_sets))
             rest == globs_from_workspace_inputs_reversed(Tail(workspace_file_sets))
         IN  IF r.some THEN rest \o << r.v >> ELSE rest

RECURSIVE globs_from_workspace_inputs(_)
globs_from_workspace_inputs(workspace_file_sets) ==
    IF Len(workspace_file_sets) = 0 THEN << >>
    ELSE LET r == NormalizeEntry(Head(workspace_file_sets))
             rest == globs_from_workspace_inputs(Tail(workspace_file_sets))
         IN  IF r.some THEN << r.v >> \o rest ELSE rest

(***************************************************************************)
(* The content hash primitive and the streaming accumulator.               *)
(* crate::native::hasher::hash is xxh3_64(bytes).to_string(); the          *)
(* accumulator is xxhash_rust::xxh3::Xxh3.  The 64-bit mixing function is  *)
(* stood for by a polynomial hash of HashBits bits: the one-shot form      *)
(* evaluates the polynomial term by term, the streaming form folds the     *)
(* bytes into a running state.                                             *)
(***************************************************************************)
HashBits == 15
HashModulus == 2 ^ HashBits
HashSeed == 5381
HashPrime == 31

\* HashPrime^n within the hash width
RECURSIVE PowMod(_)
PowMod(n) == IF n = 0 THEN 1 ELSE (PowMod(n - 1) * HashPrime) % HashModulus

\* sum of bytes[i] * HashPrime^(Len - i) within the hash width
RECURSIVE PolySum(_, _)
PolySum(bytes, i) ==
    IF i > Len(bytes) THEN 0
    ELSE (((bytes[i] * PowMod(Len(bytes) - i)) % HashModulus) + PolySum(bytes, i + 1))
             % HashModulus

\* the final mixing step, which takes the total length in
Avalanche(acc, len) == (acc + len * HashPrime) % HashModulus

\* one-shot xxh3_64(bytes)
xxh3_64(bytes) ==
    Avalanche((((HashSeed * PowMod(Len(bytes))) % HashModulus) + PolySum(bytes, 1))
                  % HashModulus,
              Len(bytes))

Digits == << "0", "1", "2", "3", "4", "5", "6", "7", "8", "9" >>

\* u64::to_string
RECURSIVE to_string(_)
to_string(n) ==
    IF n < 10 THEN << Digits[n + 1] >>
    ELSE to_string(n \div 10) \o << Digits[(n % 10) + 1] >>

\* crate::native::hasher::hash
hash(bytes) == to_string(xxh3_64(bytes))

\* Xxh3::new
Xxh3New == [acc |-> HashSeed % HashModulus, total_len |-> 0]

\* the running state after the first n of the bytes were folded into acc
RECURSIVE Absorb(_, _, _)
Absorb(acc, bytes, n) ==
    IF n = 0 THEN acc
    ELSE (Absorb(acc, bytes, n - 1) * HashPrime + bytes[n]) % HashModulus

\* Xxh3::update
Xxh3Update(hasher, bytes) ==
    [acc |-> Absorb(hasher.acc, bytes, Len(bytes)),
     total_len |-> hasher.total_len + Len(bytes)]

\* Xxh3::digest
Xxh3Digest(hasher) == Avalanche(hasher.acc, hasher.total_len)

(***************************************************************************)
(* The file matcher, crate::native::glob::glob_files::glob_files, with     *)
(* exclude = None as both callers pass it.  A glob is a literal path in    *)
(* which "*" stands for any run of characters other than "/"; a leading    *)
(* "!" negates it; a "[" that no "]" closes is a syntax error.  A file is  *)
(* selected when it matches some positive glob and no negated one.         *)
(***************************************************************************)
FileData(file, h) == [file |-> file, hash |-> h]

RECURSIVE GlobMatches(_, _)
GlobMatches(glob, path) ==
    IF Len(glob) = 0 THEN Len(path) = 0
    ELSE IF Head(glob) = "*"
    THEN \/ GlobMatches(Tail(glob), path)
         \/ /\ Len(path) > 0
            /\ Head(path) # "/"
            /\ GlobMatches(glob, Tail(path))
    ELSE /\ Len(path) > 0
         /\ Head(path) = Head(glob)
         /\ GlobMatches(Tail(glob), Tail(path))

GlobSyntaxError(glob) ==
    \E i \in 1..Len(glob) :
        /\ glob[i] = "["
        /\ \A j \in (i + 1)..Len(glob) : glob[j] # "]"

IsNegated(glob) == starts_with(glob, Bang)

\* NxGlobSet::is_match
is_match(globs, path) ==
    /\ \E i \in 1..Len(globs) :
          ~IsNegated(globs[i]) /\ GlobMatches(globs[i], path)
    /\ \A i \in 1..Len(globs) :
          IsNegated(globs[i]) => ~GlobMatches(SliceFrom(globs[i], 1), path)

Ok(v) == [kind |-> "ok", value |-> v]
Err(e) == [kind |-> "err", error |-> e]

glob_files(files, globs) ==
    IF \E i \in 1..Len(globs) : GlobSyntaxError(globs[i])
    THEN Err("glob")
    ELSE LET keep(file_data) == is_match(globs, file_data.file)
         IN  Ok(SelectSeq(files, keep))

\* files.map(|x| x.hash.clone()).collect::<Vec<String>>()
file_hashes(files) == [i \in 1..Len(files) |-> files[i].hash]

(***************************************************************************)
(* The shared cache, Arc<DashMap<String, String>>: a function from the     *)
(* keys present to their values.  get and insert are atomic per entry.     *)
(***************************************************************************)
EmptyCache == [k \in {} |-> << >>]

\* DashMap::get, with the clone of the value
DashGet(map, key) == IF key \in DOMAIN map THEN Some(map[key]) ELSE None

\* an insert that keeps the newest entry only
DashInsertEvicting(map, key, value) == [k \in {key} |-> value]

\* DashMap::insert (insert or overwrite)
DashInsert(map, key, value) ==
    [k \in DOMAIN map \cup {key} |-> IF k = key THEN value ELSE map[k]]

(***************************************************************************)
(* Inputs.                                                                 *)
(***************************************************************************)
SeqsUpTo(S, n) == UNION {[1..k -> S] : k \in 0..n}

\* file names and content hashes of the unit tests and of the negation example
GitignorePath == << ".", "g", "i", "t", "i", "g", "n", "o", "r", "e" >>
NxignorePath == << ".", "n", "x", "i", "g", "n", "o", "r", "e" >>
PackageJsonPath == << "p", "a", "c", "k", "a", "g", "e", ".", "j", "s", "o", "n" >>
ProjectJsonPath == << "p", "r", "o", "j", "e", "c", "t", ".", "j", "s", "o", "n" >>
NestedProjectPath ==
    << "p", "a", "c", "k", "a", "g", "e", "s", "/", "p", "r", "o", "j", "e", "c", "t", "/" >>
        \o ProjectJsonPath
StarJson == << "*", ".", "j", "s", "o", "n" >>
PackagesPlaceholder ==
    << "p", "a", "c", "k", "a", "g", "e", "s", "/", "{", "p", "a", "c", "k", "a", "g", "e", "}" >>

\* test_hash_workspace_files
TestCatalog ==
    << FileData(GitignorePath, << "1", "2", "3" >>),
       FileData(NxignorePath, << "4", "5", "6" >>),
       FileData(PackageJsonPath, << "7", "8", "9" >>),
       FileData(NestedProjectPath, << "a", "b", "c" >>) >>

JsonCatalog ==
    << FileData(PackageJsonPath, << "H", "1" >>),
       FileData(ProjectJsonPath, << "H", "2" >>) >>

JsonCatalogReversed == << JsonCatalog[2], JsonCatalog[1] >>

SoloCatalogs == {TestCatalog, JsonCatalog, JsonCatalogReversed, << >>}

SoloEntries ==
    { WorkspaceRoot \o GitignorePath,
      WorkspaceRoot \o StarJson,
      Bang \o WorkspaceRoot \o ProjectJsonPath,
      PackagesPlaceholder,
      << >>,
      Bang,
      Bang \o GitignorePath,
      Bang \o Bang \o WorkspaceRoot \o GitignorePath,
      WorkspaceRoot,
      WorkspaceRoot \o << "[" >> }

SoloPatternLists == SeqsUpTo(SoloEntries, MaxPatterns)

\* catalogs and pattern lists of the concurrent calls
CatalogAB ==
    << FileData(<< "a" >>, << "1", "2", "3" >>),
       FileData(<< "b" >>, << "4", "5", "6" >>),
       FileData(<< "a", ",", "b" >>, << "a", "b", "c" >>) >>
\* the same files after the content of "a" changed
CatalogABChanged ==
    << FileData(<< "a" >>, << "7", "8", "9" >>),
       FileData(<< "b" >>, << "4", "5", "6" >>),
       FileData(<< "a", ",", "b" >>, << "a", "b", "c" >>) >>

RaceCatalogs == {CatalogAB, CatalogABChanged}

RootA == WorkspaceRoot \o << "a" >>
RootB == WorkspaceRoot \o << "b" >>
RootACommaB == WorkspaceRoot \o << "a", ",", "b" >>

RacePatternLists ==
    { << RootA, RootB >>,
      << RootB, RootA >>,
      << RootACommaB >>,
      << RootA >>,
      << WorkspaceRoot \o << "*" >>, Bang \o RootB >>,
      << PackagesPlaceholder >>,
      << WorkspaceRoot \o << "[" >> >> }

(***************************************************************************)
(* State.  Each thread makes one call of hash_workspace_files on the       *)
(* shared cache; its arguments and locals are indexed by the thread.       *)
(***************************************************************************)
VARIABLES
    cache,                \* the shared DashMap
    pc,                   \* where each thread's call is
    workspace_file_sets,  \* argument
    all_workspace_files,  \* argument
    globs,                \* local
    cache_key,            \* local
    hashed_value,         \* local
    ret,                  \* what the call returned
    trace                 \* the cache and matcher operations the call has made

vars == << cache, pc, workspace_file_sets, all_workspace_files, globs, cache_key,
           hashed_value, ret, trace >>

NoRet == [kind |-> "none"]

InitLocals ==
    /\ pc = [t \in Threads |-> "idle"]
    /\ workspace_file_sets = [t \in Threads |-> << >>]
    /\ all_workspace_files = [t \in Threads |-> << >>]
    /\ globs = [t \in Threads |-> << >>]
    /\ cache_key = [t \in Threads |-> << >>]
    /\ hashed_value = [t \in Threads |-> << >>]
    /\ ret = [t \in Threads |-> NoRet]
    /\ trace = [t \in Threads |-> << >>]

\* Arc::new(DashMap::new())
Init ==
    /\ cache = EmptyCache
    /\ InitLocals

(***************************************************************************)
(* hash_workspace_files, step by step.                                     *)
(***************************************************************************)
\* byte-wise order of two strings
RECURSIVE LexLeq(_, _)
LexLeq(a, b) ==
    IF Len(a) = 0 THEN TRUE
    ELSE IF Len(b) = 0 THEN FALSE
    ELSE IF Byte(Head(a)) < Byte(Head(b)) THEN TRUE
    ELSE IF Byte(Head(a)) > Byte(Head(b)) THEN FALSE
    ELSE LexLeq(Tail(a), Tail(b))

RECURSIVE InsertSorted(_, _)
InsertSorted(x, sorted) ==
    IF Len(sorted) = 0 THEN << x >>
    ELSE IF LexLeq(x, Head(sorted)) THEN << x >> \o sorted
    ELSE << Head(sorted) >> \o InsertSorted(x, Tail(sorted))

RECURSIVE SortStrings(_)
SortStrings(strs) ==
    IF Len(strs) = 0 THEN << >> ELSE InsertSorted(Head(strs), SortStrings(Tail(strs)))

\* Call building the key from the sorted globs, so that order does not count
CallSortsKey(t, wfs, files) ==
    /\ pc[t] = "idle"
    /\ workspace_file_sets' = [workspace_file_sets EXCEPT ![t] = wfs]
    /\ all_workspace_files' = [all_workspace_files EXCEPT ![t] = files]
    /\ LET g == globs_from_workspace_inputs(wfs)
       IN  /\ globs' = [globs EXCEPT ![t] = g]
           /\ IF Len(g) = 0
              THEN /\ ret' = [ret EXCEPT ![t] = Ok(hash(<< >>))]
                   /\ pc' = [pc EXCEPT ![t] = "done"]
                   /\ UNCHANGED cache_key
              ELSE /\ cache_key' = [cache_key EXCEPT ![t] = join(SortStrings(g), Comma)]
                   /\ pc' = [pc EXCEPT ![t] = "get"]
                   /\ UNCHANGED ret
    /\ UNCHANGED << cache, hashed_value, trace >>

\* Call without the early return: the empty glob list goes on to the cache
CallChecksCacheFirst(t, wfs, files) ==
    /\ pc[t] = "idle"
    /\ workspace_file_sets' = [workspace_file_sets EXCEPT ![t] = wfs]
    /\ all_workspace_files' = [all_workspace_files EXCEPT ![t] = files]
    /\ LET g == globs_from_workspace_inputs(wfs)
       IN  /\ globs' = [globs EXCEPT ![t] = g]
           /\ cache_key' = [cache_key EXCEPT ![t] = join(g, Comma)]
           /\ pc' = [pc EXCEPT ![t] = "get"]
           /\ UNCHANGED ret
    /\ UNCHANGED << cache, hashed_value, trace >>

\* entry: normalize, return the empty hash when no glob is left, else build the key
Call(t, wfs, files) ==
    /\ pc[t] = "idle"
    /\ workspace_file_sets' = [workspace_file_sets EXCEPT ![t] = wfs]
    /\ all_workspace_files' = [all_workspace_files EXCEPT ![t] = files]
    /\ LET g == globs_from_workspace_inputs(wfs)
       IN  /\ globs' = [globs EXCEPT ![t] = g]
           /\ IF Len(g) = 0
              THEN /\ ret' = [ret EXCEPT ![t] = Ok(hash(<< >>))]
                   /\ pc' = [pc EXCEPT ![t] = "done"]
                   /\ UNCHANGED cache_key
              ELSE /\ cache_key' = [cache_key EXCEPT ![t] = join(g, Comma)]
                   /\ pc' = [pc EXCEPT ![t] = "get"]
                   /\ UNCHANGED ret
    /\ UNCHANGED << cache, hashed_value, trace >>

\* Lookup that ignores a hit and goes on to recompute
LookupRecomputes(t) ==
    /\ pc[t] = "get"
    /\ trace' = [trace EXCEPT ![t] = Append(@, "get")]
    /\ pc' = [pc EXCEPT ![t] = "glob"]
    /\ UNCHANGED << cache, workspace_file_sets, all_workspace_files, globs, cache_key,
                    hashed_value, ret >>

\* Lookup returning the key instead of the stored value
LookupReturnsKey(t) ==
    /\ pc[t] = "get"
    /\ trace' = [trace EXCEPT ![t] = Append(@, "get")]
    /\ LET cache_results == DashGet(cache, cache_key[t])
       IN  IF cache_results.some
           THEN /\ ret' = [ret EXCEPT ![t] = Ok(cache_key[t])]
                /\ pc' = [pc EXCEPT ![t] = "done"]
           ELSE /\ pc' = [pc EXCEPT ![t] = "glob"]
                /\ UNCHANGED ret
    /\ UNCHANGED << cache, workspace_file_sets, all_workspace_files, globs, cache_key,
                    hashed_value >>

\* cache.get(&cache_key): a hit returns the stored value
Lookup(t) ==
    /\ pc[t] = "get"
    /\ trace' = [trace EXCEPT ![t] = Append(@, "get")]
    /\ LET cache_results == DashGet(cache, cache_key[t])
       IN  IF cache_results.some
           THEN /\ ret' = [ret EXCEPT ![t] = Ok(cache_results.v)]
                /\ pc' = [pc EXCEPT ![t] = "done"]
           ELSE /\ pc' = [pc EXCEPT ![t] = "glob"]
                /\ UNCHANGED ret
    /\ UNCHANGED << cache, workspace_file_sets, all_workspace_files, globs, cache_key,
                    hashed_value >>

\* DigestOf with the hashes concatenated without the separator
DigestOfNoSeparator(files) ==
    CHOOSE digest \in
        { to_string(hashed) :
              hashed \in { Xxh3Digest(Xxh3Update(Xxh3New, as_bytes(joined))) :
                               joined \in {join(file_hashes(files), << >>)} } } : TRUE

\* the digest of lines 61-66 for the files the matcher selected: the hashes are
\* joined into one string, its bytes are fed to a new hasher, the digest is printed
DigestOf(files) ==
    CHOOSE digest \in
        { to_string(hashed) :
              hashed \in { Xxh3Digest(Xxh3Update(Xxh3New, as_bytes(joined))) :
                               joined \in {join(file_hashes(files), Comma)} } } : TRUE

Reverse(seq) == [i \in 1..Len(seq) |-> seq[Len(seq) + 1 - i]]

\* Glob trying the matcher again for as long as it fails
GlobRetriesOnError(t) ==
    /\ pc[t] = "glob"
    /\ LET files == glob_files(all_workspace_files[t], globs[t])
       IN  IF files.kind = "err"
           THEN UNCHANGED << trace, ret, pc, hashed_value >>
           ELSE /\ trace' = [trace EXCEPT ![t] = Append(@, "glob")]
                /\ hashed_value' = [hashed_value EXCEPT ![t] = DigestOf(files.value)]
                /\ pc' = [pc EXCEPT ![t] = "insert"]
                /\ UNCHANGED ret
    /\ UNCHANGED << cache, workspace_file_sets, all_workspace_files, globs, cache_key >>

\* Glob collecting the matched files in an order that is not the catalog's
GlobCollectsInAnyOrder(t) ==
    /\ pc[t] = "glob"
    /\ trace' = [trace EXCEPT ![t] = Append(@, "glob")]
    /\ LET files == glob_files(all_workspace_files[t], globs[t])
       IN  IF files.kind = "err"
           THEN /\ ret' = [ret EXCEPT ![t] = Err(files.error)]
                /\ pc' = [pc EXCEPT ![t] = "done"]
                /\ UNCHANGED hashed_value
           ELSE /\ \E collected \in {files.value, Reverse(files.value)} :
                      hashed_value' = [hashed_value EXCEPT ![t] = DigestOf(collected)]
                /\ pc' = [pc EXCEPT ![t] = "insert"]
                /\ UNCHANGED ret
    /\ UNCHANGED << cache, workspace_file_sets, all_workspace_files, globs, cache_key >>

\* Glob storing the digest of nothing before it returns the matcher's error
GlobStoresOnFailure(t) ==
    /\ pc[t] = "glob"
    /\ trace' = [trace EXCEPT ![t] = Append(@, "glob")]
    /\ LET files == glob_files(all_workspace_files[t], globs[t])
       IN  IF files.kind = "err"
           THEN /\ cache' = DashInsert(cache, cache_key[t], DigestOf(<< >>))
                /\ ret' = [ret EXCEPT ![t] = Err(files.error)]
                /\ pc' = [pc EXCEPT ![t] = "done"]
                /\ UNCHANGED hashed_value
           ELSE /\ hashed_value' = [hashed_value EXCEPT ![t] = DigestOf(files.value)]
                /\ pc' = [pc EXCEPT ![t] = "insert"]
                /\ UNCHANGED << ret, cache >>
    /\ UNCHANGED << workspace_file_sets, all_workspace_files, globs, cache_key >>

\* glob_files(...)?, then the digest of the joined hashes
Glob(t) ==
    /\ pc[t] = "glob"
    /\ trace' = [trace EXCEPT ![t] = Append(@, "glob")]
    /\ LET files == glob_files(all_workspace_files[t], globs[t])
       IN  IF files.kind = "err"
           THEN /\ ret' = [ret EXCEPT ![t] = Err(files.error)]
                /\ pc' = [pc EXCEPT ![t] = "done"]
                /\ UNCHANGED hashed_value
           ELSE /\ hashed_value' = [hashed_value EXCEPT ![t] = DigestOf(files.value)]
                /\ pc' = [pc EXCEPT ![t] = "insert"]
                /\ UNCHANGED ret
    /\ UNCHANGED << cache, workspace_file_sets, all_workspace_files, globs, cache_key >>

\* Insert writing under the first glob instead of the joined key
InsertUnderFirstGlob(t) ==
    /\ pc[t] = "insert"
    /\ trace' = [trace EXCEPT ![t] = Append(@, "insert")]
    /\ cache' = DashInsert(cache, globs[t][1], hashed_value[t])
    /\ ret' = [ret EXCEPT ![t] = Ok(hashed_value[t])]
    /\ pc' = [pc EXCEPT ![t] = "done"]
    /\ UNCHANGED << workspace_file_sets, all_workspace_files, globs, cache_key,
                    hashed_value >>

\* Insert with the arguments of cache.insert confused: the key is stored as the value
InsertStoresKey(t) ==
    /\ pc[t] = "insert"
    /\ trace' = [trace EXCEPT ![t] = Append(@, "insert")]
    /\ cache' = DashInsert(cache, cache_key[t], cache_key[t])
    /\ ret' = [ret EXCEPT ![t] = Ok(hashed_value[t])]
    /\ pc' = [pc EXCEPT ![t] = "done"]
    /\ UNCHANGED << workspace_file_sets, all_workspace_files, globs, cache_key,
                    hashed_value >>

\* cache.insert(cache_key, hashed_value), then Ok(hashed_value)
Insert(t) ==
    /\ pc[t] = "insert"
    /\ trace' = [trace EXCEPT ![t] = Append(@, "insert")]
    /\ cache' = DashInsert(cache, cache_key[t], hashed_value[t])
    /\ ret' = [ret EXCEPT ![t] = Ok(hashed_value[t])]
    /\ pc' = [pc EXCEPT ![t] = "done"]
    /\ UNCHANGED << workspace_file_sets, all_workspace_files, globs, cache_key,
                    hashed_value >>

\* concurrent calls on one cache
Next ==
    \E t \in Threads :
        \/ \E wfs \in RacePatternLists, files \in RaceCatalogs : Call(t, wfs, files)
        \/ Lookup(t)
        \/ Glob(t)
        \/ Insert(t)

Spec == Init /\ [][Next]_vars

(***************************************************************************)
(* One call, by one thread, on a cache that is empty or was filled by an   *)
(* earlier completed call; the pattern list is any list of SoloEntries up  *)
(* to MaxPatterns long.                                                    *)
(***************************************************************************)
\* the cache after a completed miss of hash_workspace_files(wfs, files, empty cache)
CacheAfter(wfs, files) ==
    LET g == globs_from_workspace_inputs(wfs)
    IN  DashInsert(EmptyCache, join(g, Comma), DigestOf(glob_files(files, g).value))

SoloCaches ==
    { EmptyCache,
      CacheAfter(<< WorkspaceRoot \o GitignorePath >>, TestCatalog),
      CacheAfter(<< WorkspaceRoot \o StarJson >>, JsonCatalog) }

InitSolo ==
    /\ cache \in SoloCaches
    /\ InitLocals

NextSolo ==
    \/ \E wfs \in SoloPatternLists, files \in SoloCatalogs : Call(1, wfs, files)
    \/ Lookup(1)
    \/ Glob(1)
    \/ Insert(1)

SpecSolo == InitSolo /\ [][NextSolo]_vars

(***************************************************************************)
(* get_workspace_files: the globs of the pattern list, handed to the       *)
(* matcher; what the returned iterator yields is kept in ret.  A thread    *)
(* makes this call in place of its call of hash_workspace_files.           *)
(***************************************************************************)
\* get_workspace_files storing the digest of what it selected
get_workspace_files_populating(t, wfs, files) ==
    /\ pc[t] = "idle"
    /\ workspace_file_sets' = [workspace_file_sets EXCEPT ![t] = wfs]
    /\ all_workspace_files' = [all_workspace_files EXCEPT ![t] = files]
    /\ LET g == globs_from_workspace_inputs(wfs)
           selected == glob_files(files, g)
       IN  /\ globs' = [globs EXCEPT ![t] = g]
           /\ ret' = [ret EXCEPT ![t] = selected]
           /\ cache' = IF selected.kind = "ok"
                       THEN DashInsert(cache, join(g, Comma), DigestOf(selected.value))
                       ELSE cache
    /\ trace' = [trace EXCEPT ![t] = Append(@, "glob")]
    /\ pc' = [pc EXCEPT ![t] = "resolved"]
    /\ UNCHANGED << cache_key, hashed_value >>

get_workspace_files(t, wfs, files) ==
    /\ pc[t] = "idle"
    /\ workspace_file_sets' = [workspace_file_sets EXCEPT ![t] = wfs]
    /\ all_workspace_files' = [all_workspace_files EXCEPT ![t] = files]
    /\ LET g == globs_from_workspace_inputs(wfs)
       IN  /\ globs' = [globs EXCEPT ![t] = g]
           /\ ret' = [ret EXCEPT ![t] = glob_files(files, g)]
    /\ trace' = [trace EXCEPT ![t] = Append(@, "glob")]
    /\ pc' = [pc EXCEPT ![t] = "resolved"]
    /\ UNCHANGED << cache, cache_key, hashed_value >>

\* concurrent calls of both operations on one cache
NextResolve ==
    \E t \in Threads :
        \/ \E wfs \in RacePatternLists, files \in RaceCatalogs : Call(t, wfs, files)
        \/ \E wfs \in RacePatternLists, files \in RaceCatalogs :
              get_workspace_files(t, wfs, files)
        \/ Lookup(t)
        \/ Glob(t)
        \/ Insert(t)

SpecResolve == Init /\ [][NextResolve]_vars

(***************************************************************************)
(* Runs on a fresh cache each: a call starts only on an empty cache with   *)
(* no other call under way, and a new empty cache replaces the old one     *)
(* between calls, as each unit test makes its own Arc::new(DashMap::new()).*)
(***************************************************************************)
NoCallUnderWay == \A t \in Threads : pc[t] \in {"idle", "done"}

NewCache ==
    /\ NoCallUnderWay
    /\ cache # EmptyCache
    /\ cache' = EmptyCache
    /\ UNCHANGED << pc, workspace_file_sets, all_workspace_files, globs, cache_key,
                    hashed_value, ret, trace >>

NextFresh ==
    \/ NewCache
    \/ \E t \in Threads :
          \/ /\ NoCallUnderWay
             /\ cache = EmptyCache
             /\ \E wfs \in RacePatternLists, files \in RaceCatalogs : Call(t, wfs, files)
          \/ Lookup(t)
          \/ Glob(t)
          \/ Insert(t)

SpecFresh == Init /\ [][NextFresh]_vars

(***************************************************************************)
(* Fair scheduling: a thread that is inside a call is run again, and the   *)
(* matcher and the map return.  Whether a thread makes a call is left      *)
(* open.                                                                   *)
(***************************************************************************)
Step(t) == Lookup(t) \/ Glob(t) \/ Insert(t)

SpecFair == Init /\ [][Next]_vars /\ \A t \in Threads : WF_vars(Step(t))

(***************************************************************************)
(* Properties.                                                             *)
(***************************************************************************)
Done(t) == pc[t] = "done"
\* how a finished call went, read off the operations it made
ReturnedEmpty(t) == Done(t) /\ trace[t] = << >>
ReturnedHit(t) == Done(t) /\ trace[t] = << "get" >>
ReturnedError(t) == Done(t) /\ trace[t] = << "get", "glob" >>
ReturnedMiss(t) == Done(t) /\ trace[t] = << "get", "glob", "insert" >>

\* the files of a catalog that the globs select, in catalog order
Matched(files, g) ==
    LET selected(file_data) == is_match(g, file_data.file)
    IN  SelectSeq(files, selected)

\* the digest a request computes from scratch: hash of the comma-joined hashes
FreshDigest(wfs, files) ==
    hash(as_bytes(join(file_hashes(Matched(files, globs_from_workspace_inputs(wfs))),
                       Comma)))

\* C1: a call that missed the cache and whose matcher succeeded returns
\* hash(J), J the comma-join of the matched files' hashes in catalog order (the
\* one-shot hash of the bytes the accumulator was fed); with exactly one
\* matched file of hash h it returns hash(h).
C1_MissReturnsHashOfJoinedHashes ==
    \A t \in Threads :
        ReturnedMiss(t) =>
            LET m == Matched(all_workspace_files[t],
                             globs_from_workspace_inputs(workspace_file_sets[t]))
            IN  /\ ret[t] = Ok(FreshDigest(workspace_file_sets[t], all_workspace_files[t]))
                /\ Len(m) = 1 => ret[t] = Ok(hash(as_bytes(m[1].hash)))

\* a miss that matched two files or more has returned
C1_Witness ==
    \E t \in Threads :
        /\ ReturnedMiss(t)
        /\ Len(Matched(all_workspace_files[t], globs[t])) >= 2

Started(t) == pc[t] # "idle"
SameRequest(t, u) ==
    /\ workspace_file_sets[t] = workspace_file_sets[u]
    /\ all_workspace_files[t] = all_workspace_files[u]

\* C2: a call whose key the cache holds returns the stored value verbatim and
\* ends there: it leaves the cache alone and never runs the matcher, whatever
\* catalog it was given.
C2_HitReturnsStoredValue ==
    [][\A t \in Threads :
          (pc[t] = "get" /\ pc'[t] # "get" /\ cache_key[t] \in DOMAIN cache) =>
              /\ ret'[t] = Ok(cache[cache_key[t]])
              /\ pc'[t] = "done"
              /\ trace'[t] = << "get" >>
              /\ cache' = cache]_vars

\* a hit has returned a digest that its own catalog would not have produced
C2_Witness ==
    \E t \in Threads :
        /\ ReturnedHit(t)
        /\ glob_files(all_workspace_files[t], globs[t]).kind = "ok"
        /\ ret[t] # Ok(FreshDigest(workspace_file_sets[t], all_workspace_files[t]))
        /\ \E u \in Threads :
              /\ ReturnedMiss(u)
              /\ cache_key[u] = cache_key[t]
              /\ all_workspace_files[u] # all_workspace_files[t]
              /\ ret[t] = ret[u]

\* C3: with one catalog and one pattern list, and no call for anything else in
\* between, the call that missed and the call that then hit return the same
\* digest.
C3_ColdEqualsWarm ==
    \A t, u \in Threads :
        ( /\ ReturnedMiss(t)
          /\ ReturnedHit(u)
          /\ SameRequest(t, u)
          /\ \A v \in Threads : Started(v) => SameRequest(t, v) )
        => ret[u] = ret[t]

\* a miss and a later hit of the same request have both returned
C3_Witness ==
    \E t, u \in Threads :
        /\ ReturnedMiss(t)
        /\ ReturnedHit(u)
        /\ SameRequest(t, u)
        /\ \A v \in Threads : Started(v) => SameRequest(t, v)

\* an entry carries the root-scope marker, after an optional leading "!"
HasRootMarker(x) ==
    \/ starts_with(x, WorkspaceRoot)
    \/ starts_with(x, Bang \o WorkspaceRoot)

NoRootMarker(wfs) == \A i \in 1..Len(wfs) : ~HasRootMarker(wfs[i])

\* C4: a call whose pattern list holds no entry with the root-scope marker (the
\* empty list included) returns Ok(hash of no bytes), for every catalog and
\* cache content, and no error.
C4_UnscopedReturnsEmptyHash ==
    \A t \in Threads :
        (Started(t) /\ NoRootMarker(workspace_file_sets[t])) =>
            /\ Done(t)
            /\ ret[t] = Ok(hash(<< >>))

\* such a call, of a non-empty list on a non-empty cache, has returned
C4_Witness ==
    \E t \in Threads :
        /\ Done(t)
        /\ Len(workspace_file_sets[t]) > 0
        /\ NoRootMarker(workspace_file_sets[t])
        /\ Len(all_workspace_files[t]) > 0
        /\ cache # EmptyCache

\* C5: every step of a call whose normalized glob list is empty leaves the
\* cache as it is and makes no cache or matcher operation; the call is over
\* after its first step.
C5_EmptyBypassesCache ==
    [][\A t \in Threads :
          ( /\ pc'[t] # pc[t]
            /\ Len(globs_from_workspace_inputs(workspace_file_sets'[t])) = 0 )
          => /\ cache' = cache
             /\ trace'[t] = << >>
             /\ pc'[t] = "done"]_vars

\* a call with entries, none of them usable, has returned on a cache that holds
\* entries, none under the empty key
C5_Witness ==
    \E t \in Threads :
        /\ ReturnedEmpty(t)
        /\ Len(workspace_file_sets[t]) > 0
        /\ cache # EmptyCache
        /\ << >> \notin DOMAIN cache

\* C6: when the matcher fails, the step that ran it returns the error and
\* leaves the cache as it is; and a call returns an error only so, having
\* looked up and matched and never inserted.
C6_MatcherErrorLeavesCache ==
    [][\A t \in Threads :
          /\ ( /\ pc[t] = "glob"
               /\ pc'[t] # "glob"
               /\ glob_files(all_workspace_files[t], globs[t]).kind = "err" )
             => /\ pc'[t] = "done"
                /\ ret'[t] = Err("glob")
                /\ cache' = cache
          /\ (pc'[t] # pc[t] /\ ret'[t].kind = "err")
             => /\ pc[t] = "glob"
                /\ trace'[t] = << "get", "glob" >>
                /\ cache' = cache]_vars

\* a call has returned the matcher's error while the cache holds entries
C6_Witness ==
    \E t \in Threads :
        /\ ReturnedError(t)
        /\ ret[t] = Err("glob")
        /\ cache # EmptyCache

\* the digests in play: returned, about to be written, or stored
DigestsInPlay ==
    {ret[t].value : t \in {u \in Threads : Done(u) /\ ret[u].kind = "ok"}}
        \cup {hashed_value[t] : t \in {u \in Threads : pc[u] = "insert"}}
        \cup {cache[k] : k \in DOMAIN cache}

\* C7: while all calls made so far have one pattern list and one catalog, in
\* every interleaving all returned digests, all digests about to be written and
\* the stored value are one and the same, stored under the request's key only.
C7_RacingMissesConverge ==
    (\A t, u \in Threads : (Started(t) /\ Started(u)) => SameRequest(t, u)) =>
        /\ Cardinality(DigestsInPlay) <= 1
        /\ \A t \in Threads : Started(t) => DOMAIN cache \subseteq {cache_key[t]}

\* two calls of one request both missed, and both have written
C7_Witness ==
    \E t, u \in Threads :
        /\ t # u
        /\ SameRequest(t, u)
        /\ ReturnedMiss(t)
        /\ ReturnedMiss(u)
        /\ \A v \in Threads : Started(v) => SameRequest(t, v)

\* C8: while all calls have one catalog, each cache entry equals the digest
\* that every request whose globs join to the entry's key computes from
\* scratch on that catalog.
C8_EntryIsDigestOfEveryRequestOfKey ==
    \A t \in Threads :
        (Started(t) /\ \A u \in Threads :
                          Started(u) => all_workspace_files[u] = all_workspace_files[t])
        => \A k \in DOMAIN cache :
               \A wfs \in RacePatternLists :
                   LET g == globs_from_workspace_inputs(wfs)
                   IN  ( /\ Len(g) > 0
                         /\ join(g, Comma) = k
                         /\ glob_files(all_workspace_files[t], g).kind = "ok" )
                       => cache[k] = FreshDigest(wfs, all_workspace_files[t])

\* the files of a catalog that no negated glob matches
NotExcluded(files, g) ==
    LET kept(file_data) ==
            \A i \in 1..Len(g) :
                IsNegated(g[i]) => ~GlobMatches(SliceFrom(g[i], 1), file_data.file)
    IN  SelectSeq(files, kept)

NegationExample ==
    << WorkspaceRoot \o StarJson, Bang \o WorkspaceRoot \o ProjectJsonPath >>

\* C9: the digest of a miss is the digest of the catalog without the files a
\* negated glob matches; on ["{workspaceRoot}/*.json",
\* "!{workspaceRoot}/project.json"] over package.json (H1) and project.json
\* (H2) it is hash("H1").
C9_NegatedFilesContributeNothing ==
    \A t \in Threads :
        ReturnedMiss(t) =>
            LET g == globs_from_workspace_inputs(workspace_file_sets[t])
            IN  /\ ret[t] = Ok(FreshDigest(workspace_file_sets[t],
                                           NotExcluded(all_workspace_files[t], g)))
                /\ \A i \in 1..Len(all_workspace_files[t]) :
                       (\E j \in 1..Len(workspace_file_sets[t]) :
                           /\ starts_with(workspace_file_sets[t][j], Bang \o WorkspaceRoot)
                           /\ GlobMatches(SliceFrom(workspace_file_sets[t][j],
                                                    1 + Len(WorkspaceRoot)),
                                          all_workspace_files[t][i].file))
                       => ret[t] = Ok(FreshDigest(
                                         workspace_file_sets[t],
                                         SelectSeq(all_workspace_files[t],
                                                   LAMBDA f : f # all_workspace_files[t][i])))
                /\ ( /\ workspace_file_sets[t] = NegationExample
                     /\ all_workspace_files[t] \in {JsonCatalog, JsonCatalogReversed} )
                   => ret[t] = Ok(hash(as_bytes(<< "H", "1" >>)))

\* the example's call has returned
C9_Witness ==
    \E t \in Threads :
        /\ ReturnedMiss(t)
        /\ workspace_file_sets[t] = NegationExample
        /\ all_workspace_files[t] = JsonCatalog

\* C10: the lists [a, b] and [b, a] have different keys: with only calls of
\* [a, b] beside it, a call of [b, a] misses, and once both have written the
\* cache holds two entries.
C10_OrderMakesDistinctKeys ==
    \A u \in Threads :
        ( /\ Started(u)
          /\ workspace_file_sets[u] = << RootB, RootA >>
          /\ \A v \in Threads \ {u} :
                Started(v) => workspace_file_sets[v] = << RootA, RootB >> )
        => /\ \A v \in Threads \ {u} : Started(v) => cache_key[v] # cache_key[u]
           /\ Done(u) => ReturnedMiss(u)
           /\ \A v \in Threads \ {u} :
                 (ReturnedMiss(u) /\ ReturnedMiss(v)) => Cardinality(DOMAIN cache) = 2

\* [a, b] and [b, a] both missed on one catalog and returned the same digest
C10_Witness ==
    \E t, u \in Threads :
        /\ workspace_file_sets[t] = << RootA, RootB >>
        /\ workspace_file_sets[u] = << RootB, RootA >>
        /\ all_workspace_files[t] = all_workspace_files[u]
        /\ ReturnedMiss(t)
        /\ ReturnedMiss(u)
        /\ ret[t] = ret[u]
        /\ Cardinality(DOMAIN cache) = 2

\* the positions of a pattern list whose entry carries the root-scope marker
KeptPositions(wfs) == {i \in 1..Len(wfs) : HasRootMarker(wfs[i])}

\* the glob an entry with the marker stands for: the text after the marker,
\* behind "!" when the entry began with it
CanonicalGlob(x) ==
    IF x[1] = "!"
    THEN Bang \o SubSeq(x, Len(WorkspaceRoot) + 2, Len(x))
    ELSE SubSeq(x, Len(WorkspaceRoot) + 1, Len(x))

\* C11: the globs of a call are the entries that carry the marker (after at
\* most one "!"), each as its canonical glob, in input order: as many globs as
\* kept positions, the glob of the k-th kept position at place k, duplicates
\* kept.
C11_NormalizerIsOrderedFilterMap ==
    \A t \in Threads :
        Started(t) =>
            LET wfs == workspace_file_sets[t]
                kept == KeptPositions(wfs)
            IN  /\ Len(globs[t]) = Cardinality(kept)
                /\ \A i \in kept :
                       globs[t][Cardinality({j \in kept : j <= i})] = CanonicalGlob(wfs[i])

\* a call of two different entries that are both kept, the second negated
C11_Witness ==
    \E t \in Threads :
        /\ Started(t)
        /\ Len(workspace_file_sets[t]) = 2
        /\ Len(globs[t]) = 2
        /\ globs[t][1] # globs[t][2]
        /\ ~IsNegated(globs[t][1])
        /\ IsNegated(globs[t][2])

Resolved(t) == pc[t] = "resolved"

\* C12: a call of get_workspace_files leaves the cache and every other call as
\* they are and runs the matcher, whatever the cache holds; the keys of the
\* cache are those the calls of hash_workspace_files that missed have written,
\* and a call hits only on such a key.
C12_ResolveLeavesCacheAlone ==
    /\ [](/\ DOMAIN cache = {cache_key[u] : u \in {v \in Threads : ReturnedMiss(v)}}
          /\ \A t \in Threads :
                ReturnedHit(t) =>
                    \E u \in Threads : ReturnedMiss(u) /\ cache_key[u] = cache_key[t])
    /\ [][\A t \in Threads :
             (pc[t] = "idle" /\ pc'[t] = "resolved") =>
                 /\ cache' = cache
                 /\ trace'[t] = << "glob" >>
                 /\ ret'[t] = glob_files(all_workspace_files'[t],
                                         globs_from_workspace_inputs(workspace_file_sets'[t]))
                 /\ \A u \in Threads \ {t} :
                       /\ pc'[u] = pc[u]
                       /\ ret'[u] = ret[u]
                       /\ trace'[u] = trace[u]]_vars

\* get_workspace_files has run the matcher for globs whose key the cache holds
C12_Witness ==
    \E t \in Threads :
        /\ Resolved(t)
        /\ ret[t].kind = "ok"
        /\ Len(ret[t].value) > 0
        /\ trace[t] = << "glob" >>
        /\ join(globs[t], Comma) \in DOMAIN cache

KeyOf(wfs) == join(globs_from_workspace_inputs(wfs), Comma)

\* C14: after a miss that ran alone, the cache holds, under the comma-join of
\* the request's normalized globs, exactly the digest the call returned.
C14_MissStoresReturnedDigest ==
    \A t \in Threads :
        ReturnedMiss(t) =>
            /\ KeyOf(workspace_file_sets[t]) \in DOMAIN cache
            /\ ret[t] = Ok(cache[KeyOf(workspace_file_sets[t])])

\* a miss of two globs has returned on a cache that held another entry
C14_Witness ==
    \E t \in Threads :
        /\ ReturnedMiss(t)
        /\ Len(globs[t]) = 2
        /\ Cardinality(DOMAIN cache) = 2

\* C15: a key the cache holds stays in the cache, in every step of every
\* interleaving of hash_workspace_files and get_workspace_files calls.
C15_KeysOnlyGrow == [][DOMAIN cache \subseteq DOMAIN cache']_vars

\* the cache holds two keys, written by two calls
C15_Witness ==
    \E t, u \in Threads :
        /\ ReturnedMiss(t)
        /\ ReturnedMiss(u)
        /\ cache_key[t] # cache_key[u]
        /\ {cache_key[t], cache_key[u]} \subseteq DOMAIN cache

\* C16: an empty entry and an entry that is just "!" give no glob: a call has
\* at most as many globs as entries other than these, and none when all its
\* entries are such.
C16_EmptyAndBangAreDropped ==
    \A t \in Threads :
        Started(t) =>
            LET wfs == workspace_file_sets[t]
                others == {i \in 1..Len(wfs) : wfs[i] \notin {<< >>, Bang}}
            IN  /\ Len(globs[t]) <= Cardinality(others)
                /\ others = {} => (globs[t] = << >> /\ ReturnedEmpty(t))

\* a call of both such entries has returned
C16_Witness ==
    \E t \in Threads :
        /\ workspace_file_sets[t] \in {<< << >>, Bang >>, << Bang, << >> >>}
        /\ ReturnedEmpty(t)
        /\ globs[t] = << >>

\* C17: two calls whose normalized glob sequences differ have different keys.
C17_KeyIsInjective ==
    \A t, u \in Threads :
        ( /\ pc[t] \in {"get", "glob", "insert", "done"}
          /\ pc[u] \in {"get", "glob", "insert", "done"}
          /\ Len(globs[t]) > 0
          /\ Len(globs[u]) > 0
          /\ globs[t] # globs[u] )
        => cache_key[t] # cache_key[u]

\* C18: a step of a call leaves every entry under another key than its own as
\* it is, present or absent, and the step of a hit changes no entry at all.
C18_OnlyOwnEntryChanges ==
    [][\A t \in Threads :
          pc'[t] # pc[t] =>
              /\ \A k \in (DOMAIN cache \cup DOMAIN cache') \ {KeyOf(workspace_file_sets'[t])} :
                    /\ k \in DOMAIN cache
                    /\ k \in DOMAIN cache'
                    /\ cache'[k] = cache[k]
              /\ (pc[t] = "get" /\ pc'[t] = "done") => cache' = cache]_vars

\* two calls have each written the entry of their own key
C18_Witness ==
    \E t, u \in Threads :
        /\ ReturnedMiss(t)
        /\ ReturnedMiss(u)
        /\ cache_key[t] # cache_key[u]
        /\ DOMAIN cache = {cache_key[t], cache_key[u]}
        /\ ret[t] = Ok(cache[cache_key[t]])
        /\ ret[u] = Ok(cache[cache_key[u]])

InCall(t) == pc[t] \in {"get", "glob", "insert"}

\* C19: every call that is under way returns, with a digest or an error,
\* whatever the other threads do.
C19_EveryCallReturns ==
    \A t \in Threads : InCall(t) ~> (Done(t) /\ ret[t].kind \in {"ok", "err"})

\* all calls have returned, one of them after a miss and one after a hit on
\* the same key
C19_Witness ==
    /\ \A t \in Threads : Done(t)
    /\ \E t, u \in Threads :
          /\ ReturnedMiss(t)
          /\ ReturnedHit(u)
          /\ cache_key[t] = cache_key[u]

====
